---- MODULE Spec2Model ----
(***************************************************************************)
(* CogniBot: analysis-and-decision core.                                   *)
(*   src/src/llm_analyzer.py   language-model client (retry, taxonomy)     *)
(*   src/src/bias_detector.py  pattern detector                            *)
(*   src/src/cognibot.py       message handling, decision, rate limiter    *)
(*                                                                         *)
(* Confidences and thresholds are percentages (0.6 is 60); the float       *)
(* arithmetic of the detector (0.6 - 0.2 + 0.2) lands exactly on these.    *)
(* The latency of a client call is counted in seconds; the wall clock of   *)
(* the rate limiter is counted in ticks (TicksPerMinute of them a minute). *)
(***************************************************************************)
EXTENDS Integers, Sequences, FiniteSets, TLC

----------------------------------------------------------------------------
(* Bounds of the model *)

\* number of concurrent callers / message-handling tasks
MaxHandlers == 2
\* largest message identifier delivered
MaxMsgId == 2
\* number of chats
MaxChat == 2
\* the clock stops advancing here (in clock ticks)
MaxTime == 2
\* resolution of the clock: ticks per minute
TicksPerMinute == 2
\* largest configured cooldown, in minutes
MaxDelayMinutes == 1
\* longest list of findings handed to the decision policy on its own
MaxFindings == 2
\* longest list of suggestions in a result handed to the formatter
MaxSuggestions == 4
\* most words of the varying part of a text handed to the detector on its own
MaxCoreWords == 3

Handlers == 1..MaxHandlers
MsgIds == 1..MaxMsgId
Chats == 1..MaxChat

----------------------------------------------------------------------------
(* Program constants *)

max_attempts_more == 3 + 1

max_attempts == 3
base_delay == 1
attempt_timeout == 30
base_confidence == 60
short_text_penalty == 20
ad_hominem_boost == 20
report_threshold == 50
short_text_words == 10
min_message_length == 20
additional_pattern_threshold == 60

----------------------------------------------------------------------------
(* Small helpers *)

RECURSIVE Pow2(_)
Pow2(n) == IF n <= 0 THEN 1 ELSE 2 * Pow2(n - 1)

RECURSIVE SumSeq(_)
SumSeq(s) == IF s = <<>> THEN 0 ELSE Head(s) + SumSeq(Tail(s))

Min2(a, b) == IF a < b THEN a ELSE b
Max2(a, b) == IF a > b THEN a ELSE b

\* dict.get(key, default)
dict_get(d, k, default) == IF k \in DOMAIN d THEN d[k] ELSE default

None == "None"
\* an error_message of None (texts are sequences of words)
NoMessage == <<>>

----------------------------------------------------------------------------
(* Exceptions raised by the transport and by response parsing *)

RetryableErrors == {"TimeoutError", "APIConnectionError", "InternalServerError"}
NonRetryableErrors == {"AuthenticationError", "RateLimitError", "BadRequestError"}
\* exceptions that match neither except clause of the retry loop
UnclassifiedErrors == {"ValueError"}
\* raised while parsing a response
ParseErrors == {"JSONDecodeError", "TypeError", "AttributeError"}

APIErrorType == {"invalid_api_key", "rate_limited", "network_error",
                 "service_unavailable", "insufficient_quota", "unknown_error"}

\* str(e) of a request rejection, as a sequence of words
ErrorTexts == { <<"Billing", "quota", "exceeded">>,
                <<"QUOTA">>,
                <<"Quotas", "low">>,
                <<"check", "Billing">>,
                <<"Invalid", "request">>,
                <<>> }

lower_table == [w \in {"Billing", "QUOTA", "Invalid", "Quotas", "You're", "Only",
                        "Everyone", "Most", "This", "Argument", "Unable", "API",
                        "Service", "Please"} |->
                  CASE w = "Billing" -> "billing"
                    [] w = "QUOTA" -> "quota"
                    [] w = "Invalid" -> "invalid"
                    [] w = "Quotas" -> "quotas"
                    [] w = "You're" -> "you're"
                    [] w = "Only" -> "only"
                    [] w = "Everyone" -> "everyone"
                    [] w = "Most" -> "most"
                    [] w = "This" -> "this"
                    [] w = "Argument" -> "argument"
                    [] w = "Unable" -> "unable"
                    [] w = "API" -> "api"
                    [] w = "Service" -> "service"
                    [] w = "Please" -> "please"]

lower_identity(w) == w

\* str.lower() on one word
lower(w) == IF w \in DOMAIN lower_table THEN lower_table[w] ELSE w

\* kw is a substring of the word w (both as written)
word_has(w, kw) == \/ w = kw
                   \/ (w = "quotas" /\ kw = "quota")
                   \/ (w = "pointless" /\ kw = "point")
                   \/ (w = "claims" /\ kw = "claim")

\* `kw in s.lower()` for a sequence of words s
contains_lower(s, kw) == \E i \in 1..Len(s) : word_has(lower(s[i]), kw)

Exc(class, text) == [class |-> class, text |-> text]

TransportErrors ==
    {Exc(c, <<>>) : c \in (RetryableErrors \cup UnclassifiedErrors
                            \cup {"AuthenticationError", "RateLimitError"})}
    \cup {Exc("BadRequestError", t) : t \in ErrorTexts}

----------------------------------------------------------------------------
(* Language-model client: results *)

\* LLMAnalysisResult
LLMAnalysisResult(hb, conf, biases, quality, issues, sugg, summary, err, msg) ==
    [has_biases |-> hb, confidence |-> conf, detected_biases |-> biases,
     reasoning_quality |-> quality, discussion_issues |-> issues,
     suggestions |-> sugg, summary |-> summary,
     api_error |-> err, error_message |-> msg]

\* the kind-specific recovery hints of _create_fallback_result
fallback_suggestions_wrong(error_type) ==
    IF error_type = "rate_limited"
    THEN <<>>
    ELSE <<"LLM analysis temporarily unavailable due to technical issues">>

fallback_suggestions(error_type) ==
    CASE error_type = "invalid_api_key" ->
           <<"OpenAI API key is invalid or expired - please check configuration">>
      [] error_type = "rate_limited" ->
           <<"API rate limit exceeded - analysis will resume shortly">>
      [] error_type = "insufficient_quota" ->
           <<"OpenAI quota exceeded - please check billing and usage limits">>
      [] error_type = "network_error" ->
           <<"Network connection issue - please check internet connectivity">>
      [] error_type = "service_unavailable" ->
           <<"OpenAI service temporarily unavailable - please try again later">>
      [] OTHER ->
           <<"LLM analysis temporarily unavailable due to technical issues">>

create_fallback_result(error_type, error_message) ==
    LLMAnalysisResult(FALSE, 0, <<>>, "unknown", <<>>,
                      fallback_suggestions(error_type),
                      "Analysis could not be completed due to technical issues.",
                      error_type, error_message)

----------------------------------------------------------------------------
(* Language-model client: response bodies *)

BodyKeys == {"has_biases", "confidence", "detected_biases", "reasoning_quality",
             "discussion_issues", "suggestions", "summary"}

Restrict(f, S) == [k \in S |-> f[k]]

\* confidences the service may put in a body (it is not bound to [0,1])
BodyConfidences == {70, 71}

FullBody(hb, conf, issues, sugg) ==
    [has_biases |-> hb, confidence |-> conf, detected_biases |-> <<"ad hominem">>,
     reasoning_quality |-> "poor", discussion_issues |-> issues,
     suggestions |-> sugg, summary |-> "Personal attack."]

\* JSON objects the service may answer with: complete ones, and ones with keys
\* missing
Bodies ==
    {FullBody(hb, c, <<>>, <<"s1">>) : hb \in BOOLEAN, c \in BodyConfidences}
    \cup {FullBody(FALSE, 71, <<"hostile tone">>, <<"s1", "s2">>),
          FullBody(TRUE, 120, <<>>, <<"s1">>)}
    \cup {Restrict(FullBody(TRUE, 71, <<"hostile tone">>, <<"s1">>), BodyKeys \ {k}) :
              k \in {"has_biases", "confidence"}}
    \cup {Restrict(FullBody(TRUE, 71, <<>>, <<>>), {})}

\* message.content of a response: a JSON object, JSON that is no object, text
\* that is no JSON, or no content at all
Contents == {[form |-> "object", data |-> b] : b \in Bodies}
            \cup {[form |-> f, data |-> <<>>] : f \in {"array", "invalid", "none"}}

Returned(v) == [raised |-> FALSE, value |-> v]
Raised(e) == [raised |-> TRUE, exc |-> e]

\* json.loads(content) followed by the construction of the result
analyze_message_parse(content) ==
    CASE content.form = "invalid" -> Raised(Exc("JSONDecodeError", <<>>))
      [] content.form = "none" -> Raised(Exc("TypeError", <<>>))
      [] content.form = "array" -> Raised(Exc("AttributeError", <<>>))
      [] OTHER ->
           LET d == content.data IN
           Returned(LLMAnalysisResult(
               dict_get(d, "has_biases", FALSE),
               dict_get(d, "confidence", 0),
               dict_get(d, "detected_biases", <<>>),
               dict_get(d, "reasoning_quality", "fair"),
               dict_get(d, "discussion_issues", <<>>),
               dict_get(d, "suggestions", <<>>),
               dict_get(d, "summary", "Analysis completed."),
               None, NoMessage))

\* classes caught by `except Exception`
ExceptionClasses == RetryableErrors \cup NonRetryableErrors
                    \cup UnclassifiedErrors \cup ParseErrors

\* the except clauses of analyze_message, in order
analyze_message_except_nocatchall(e) ==
    CASE e.class = "JSONDecodeError" ->
           Returned(create_fallback_result("unknown_error", <<"Failed to parse API response">>))
      [] e.class = "TimeoutError" ->
           Returned(create_fallback_result("network_error", <<"API request timed out">>))
      [] OTHER -> Raised(e)

analyze_message_except_misfiled(e) ==
    CASE e.class \in {"TimeoutError", "APIConnectionError", "InternalServerError"} ->
           Returned(create_fallback_result("service_unavailable",
                                           <<"OpenAI service temporarily unavailable">>))
      [] e.class \in {"AuthenticationError", "RateLimitError"} ->
           Returned(create_fallback_result("rate_limited",
                                           <<"API rate limit exceeded - too many requests">>))
      [] e.class = "BadRequestError" ->
           Returned(create_fallback_result("insufficient_quota", <<"OpenAI API quota exceeded">>))
      [] OTHER ->
           Returned(create_fallback_result("unknown_error", <<"Unexpected error">> \o e.text))

analyze_message_except(e) ==
    CASE e.class = "JSONDecodeError" ->
           Returned(create_fallback_result("unknown_error", <<"Failed to parse API response">>))
      [] e.class = "TimeoutError" ->
           Returned(create_fallback_result("network_error", <<"API request timed out">>))
      [] e.class = "AuthenticationError" ->
           Returned(create_fallback_result("invalid_api_key",
                                           <<"Invalid or expired OpenAI API key">>))
      [] e.class = "RateLimitError" ->
           Returned(create_fallback_result("rate_limited",
                                           <<"API rate limit exceeded - too many requests">>))
      [] e.class = "InternalServerError" ->
           Returned(create_fallback_result("service_unavailable",
                                           <<"OpenAI service temporarily unavailable">>))
      [] e.class = "APIConnectionError" ->
           Returned(create_fallback_result("network_error",
                                           <<"Network connection to OpenAI failed">>))
      [] e.class = "BadRequestError" ->
           IF contains_lower(e.text, "quota") \/ contains_lower(e.text, "billing")
           THEN Returned(create_fallback_result("insufficient_quota",
                                                <<"OpenAI API quota exceeded">>))
           ELSE Returned(create_fallback_result("unknown_error",
                                                <<"API request error">> \o e.text))
      [] e.class \in ExceptionClasses ->
           Returned(create_fallback_result("unknown_error", <<"Unexpected error">> \o e.text))
      [] OTHER -> Raised(e)

analyze_message_complete_reraising(call) ==
    IF call.raised
    THEN call
    ELSE LET parsed == analyze_message_parse(call.value) IN
         IF parsed.raised THEN analyze_message_except(parsed.exc) ELSE parsed

\* analyze_message from the point where _make_api_call_with_retry has returned
\* a response (Returned) or raised (Raised)
analyze_message_complete(call) ==
    IF call.raised
    THEN analyze_message_except(call.exc)
    ELSE LET parsed == analyze_message_parse(call.value) IN
         IF parsed.raised THEN analyze_message_except(parsed.exc) ELSE parsed

----------------------------------------------------------------------------
(* Language-model client: the retry loop of _make_api_call_with_retry *)

Response(c) == [kind |-> "response", content |-> c]
Failure(e) == [kind |-> "raise", exc |-> e]

\* what one transport attempt can end with
Outcomes == {Response(c) : c \in Contents} \cup {Failure(e) : e \in TransportErrors}

\* seconds an attempt takes: wait_for cuts it at the timeout, anything else
\* has ended before that
AttemptDurations(o) ==
    IF o.kind = "raise" /\ o.exc.class = "TimeoutError"
    THEN {attempt_timeout}
    ELSE {0, attempt_timeout - 1}

is_retryable_all(class) == class \in RetryableErrors \cup NonRetryableErrors

is_retryable_unclassified(class) == class \in RetryableErrors \cup UnclassifiedErrors

\* except (asyncio.TimeoutError, openai.APIConnectionError, openai.InternalServerError)
is_retryable(class) == class \in RetryableErrors

\* if attempt == max_attempts
is_last_attempt(attempt) == attempt = max_attempts

backoff_delay_shifted(attempt) == base_delay * Pow2(attempt)

backoff_delay_constant(attempt) == base_delay

\* delay = base_delay * (2 ** (attempt - 1))
backoff_delay(attempt) == base_delay * Pow2(attempt - 1)

\* one iteration of the loop, for the attempt's outcome o: return the response,
\* raise, or sleep before the next iteration
make_api_call_with_retry_step(attempt, o) ==
    IF o.kind = "response"
    THEN [act |-> "return", call |-> Returned(o.content)]
    ELSE IF is_retryable(o.exc.class)
         THEN IF is_last_attempt(attempt)
              THEN [act |-> "raise", call |-> Raised(o.exc)]
              ELSE [act |-> "sleep", delay |-> backoff_delay(attempt)]
         ELSE [act |-> "raise", call |-> Raised(o.exc)]

\* the loop is over when range(1, max_attempts + 1) is exhausted
loop_exhausted(attempt) == attempt > max_attempts

----------------------------------------------------------------------------
(* Language-model client: generate_educational_response *)

ApologyApiIssues == "Unable to generate detailed response due to API issues."
ApologyUnavailable == "Service temporarily unavailable. Please try again later."

\* the texts as written: the warning marker, then the words
apology_words ==
    [t \in {ApologyApiIssues, ApologyUnavailable} |->
        IF t = ApologyApiIssues
        THEN <<":warning:", "Unable", "to", "generate", "detailed", "response",
               "due", "to", "API", "issues.">>
        ELSE <<":warning:", "Service", "temporarily", "unavailable.", "Please",
               "try", "again", "later.">>]

followup_skips_missing_not(analysis) ==
    ~analysis.has_biases /\ analysis.discussion_issues # <<>>

\* the early return: nothing to elaborate on
followup_skips(analysis) ==
    ~analysis.has_biases /\ analysis.discussion_issues = <<>>

\* generate_educational_response from the point where the call has returned
\* or raised
generate_educational_response_complete(call) ==
    IF ~call.raised
    THEN Returned(IF call.value.form = "none" THEN None ELSE "content")
    ELSE CASE call.exc.class \in NonRetryableErrors -> Returned(ApologyApiIssues)
           [] call.exc.class \in RetryableErrors -> Returned(ApologyUnavailable)
           [] call.exc.class \in ExceptionClasses -> Returned(None)
           [] OTHER -> Raised(call.exc)

\* prior results handed to generate_educational_response
AnalysisSamples ==
    {LLMAnalysisResult(hb, 90, <<>>, "poor", issues, <<>>, "s", None, NoMessage) :
        hb \in BOOLEAN, issues \in {<<>>, <<"hostile tone">>}}
    \cup {create_fallback_result("network_error", <<"API request timed out">>)}

----------------------------------------------------------------------------
(* Summary formatting (llm_analyzer.py).  A text is a sequence of lines, a   *)
(* line a sequence of pieces: a marker, a heading, then the words that      *)
(* follow.                                                                  *)

GoodQualitySentence ==
    << <<":check:", "Good Discussion Quality",
         "No significant cognitive biases or logical errors detected.">> >>

\* `error_message or default`: None and the empty text give the default
error_message_or(error_message, default) ==
    IF error_message = NoMessage THEN default ELSE error_message

format_api_error_leaky(analysis) ==
    << <<":x:", "Analysis Error">>
       \o error_message_or(analysis.error_message,
                           <<"LLM analysis temporarily unavailable.">>) >>

\* format_analysis_summary for a result with api_error set
format_api_error(analysis) ==
    CASE analysis.api_error = "invalid_api_key" ->
           << <<":warning:", "Configuration Issue",
                "OpenAI API key is invalid or expired. LLM analysis unavailable.">> >>
      [] analysis.api_error = "rate_limited" ->
           << <<":hourglass:", "Rate Limited",
                "Too many requests to OpenAI. Analysis will resume shortly.">> >>
      [] analysis.api_error = "insufficient_quota" ->
           << <<":money:", "Quota Exceeded",
                "OpenAI usage limits reached. Please check billing settings.">> >>
      [] analysis.api_error = "service_unavailable" ->
           << <<":wrench:", "Service Unavailable",
                "OpenAI service temporarily down. Using pattern-based analysis only.">> >>
      [] analysis.api_error = "network_error" ->
           << <<":globe:", "Connection Issue",
                "Cannot reach OpenAI servers. Check internet connection.">> >>
      [] OTHER ->
           << <<":x:", "Analysis Error">>
              \o error_message_or(analysis.error_message,
                                  <<"LLM analysis temporarily unavailable.">>) >>

\* the marker of the header line
confidence_emoji(confidence) ==
    IF confidence > 80 THEN ":red:"
    ELSE IF confidence > 50 THEN ":yellow:" ELSE ":green:"

\* the dict of quality markers, and its default
quality_emoji(reasoning_quality) ==
    dict_get([poor |-> ":x:", fair |-> ":warning:", good |-> ":check:",
              excellent |-> ":star:"], reasoning_quality, ":question:")

\* str.title() on the quality labels
title_table == [poor |-> "Poor", fair |-> "Fair", good |-> "Good",
                excellent |-> "Excellent", unknown |-> "Unknown"]

title(w) == IF w \in DOMAIN title_table THEN title_table[w] ELSE w

\* one "* item" line per element
bullets(items) == [i \in 1..Len(items) |-> <<"*", items[i]>>]

\* a heading followed by its items; nothing when the condition fails
section(shown, marker, heading, items) ==
    IF shown THEN << <<marker, heading>> >> \o bullets(items) ELSE <<>>

\* `if analysis.suggestions and len(analysis.suggestions) <= 3`, then the
\* slice [:3]
suggestions_section(suggestions) ==
    section(suggestions # <<>> /\ Len(suggestions) <= 3, ":bulb:", "Suggestions",
            SubSeq(suggestions, 1, Min2(3, Len(suggestions))))

format_analysis_summary_errors_last(analysis) ==
    IF ~analysis.has_biases /\ analysis.discussion_issues = <<>>
    THEN GoodQualitySentence
    ELSE format_api_error(analysis)

\* LLMAnalyzer.format_analysis_summary
format_analysis_summary(analysis) ==
    IF analysis.api_error # None THEN format_api_error(analysis)
    ELSE IF ~analysis.has_biases /\ analysis.discussion_issues = <<>>
    THEN GoodQualitySentence
    ELSE << <<confidence_emoji(analysis.confidence), "Cognitive Bias Analysis",
              "Confidence", ToString(analysis.confidence)>> >>
         \o section(analysis.detected_biases # <<>>, ":brain:", "Detected Issues",
                    analysis.detected_biases)
         \o << <<quality_emoji(analysis.reasoning_quality), "Reasoning Quality",
                 title(analysis.reasoning_quality)>> >>
         \o section(analysis.discussion_issues # <<>>, ":warning:",
                    "Discussion Issues", analysis.discussion_issues)
         \o suggestions_section(analysis.suggestions)
         \o (IF analysis.summary # "" THEN << <<":memo:", "Summary",
                                                analysis.summary>> >> ELSE <<>>)

----------------------------------------------------------------------------
(* Pattern detector (bias_detector.py).  A text is a sequence of whitespace-  *)
(* delimited words; a pattern is a sequence of elements, each the set of     *)
(* words it accepts, or Gap for the regular expression's `.+`.              *)

Gap == {"<.+>"}

\* bias_patterns, in the dict's insertion order
bias_patterns == <<
    [bias_type |-> "ad_hominem", patterns |-> <<
        <<{"you're"}, {"stupid", "idiot", "moron", "dumb"}>>,
        <<{"only"}, {"a", "an"}, {"idiot", "fool", "moron"}, {"would"}>>,
        <<{"coming"}, {"from"}, {"someone"}, {"who"}>>,
        <<{"you"}, {"clearly"}, {"don't"}, {"understand"}>> >>],
    [bias_type |-> "strawman", patterns |-> <<
        <<{"so"}, {"you're"}, {"saying"}>>,
        <<{"what"}, {"you"}, {"really"}, {"mean"}, {"is"}>>,
        <<{"if"}, {"we"}, {"follow"}, {"your"}, {"logic"}>>,
        <<{"by"}, {"that"}, {"logic"}>> >>],
    [bias_type |-> "false_dichotomy", patterns |-> <<
        <<{"either"}, Gap, {"or"}, Gap, {"there's"}, {"no"}, {"middle"}, {"ground"}>>,
        <<{"you're"}, {"either"}, Gap, {"or"}, Gap>>,
        <<{"if"}, {"you're"}, {"not"}, Gap, {"then"}, {"you"}, {"must"}, {"be"}, Gap>> >>],
    [bias_type |-> "appeal_to_authority", patterns |-> <<
        <<{"experts"}, {"say"}>>,
        <<{"studies"}, {"show"}>>,
        <<{"scientists"}, {"agree"}>>,
        <<{"according"}, {"to"}, {"[famous"}, {"person]"}>> >>],
    [bias_type |-> "bandwagon", patterns |-> <<
        <<{"everyone"}, {"knows"}>>,
        <<{"most"}, {"people"}, {"agree"}>>,
        <<{"it's"}, {"common"}, {"knowledge"}>>,
        <<{"everybody"}, {"does"}, {"it"}>> >>] >>

\* text.lower()
text_lower(text) == [i \in 1..Len(text) |-> lower(text[i])]

\* the index of the last word of the match of p[pi..] against t[ti..], the
\* gaps taking as many words as they can; 0 if there is no match
RECURSIVE match_end(_, _, _, _)
match_end(p, pi, t, ti) ==
    IF pi > Len(p) THEN ti - 1
    ELSE IF ti > Len(t) THEN 0
    ELSE IF p[pi] = Gap
         THEN LET ks == {k \in 1..(Len(t) - ti + 1) : match_end(p, pi + 1, t, ti + k) # 0}
              IN IF ks = {} THEN 0
                 ELSE match_end(p, pi + 1, t, ti + (CHOOSE k \in ks : \A j \in ks : j <= k))
         ELSE IF t[ti] \in p[pi] THEN match_end(p, pi + 1, t, ti + 1) ELSE 0

\* re.finditer(pattern, text_lower): the non-overlapping matches, left to right
RECURSIVE finditer(_, _, _)
finditer(p, t, pos) ==
    LET starts == {i \in pos..Len(t) : match_end(p, 1, t, i) # 0} IN
    IF starts = {} THEN <<>>
    ELSE LET st == CHOOSE i \in starts : \A j \in starts : i <= j
             en == match_end(p, 1, t, st)
         IN <<[start |-> st, end |-> en]>> \o finditer(p, t, en + 1)

\* len(full_text.split())
word_count(text) == Len(text)

argument_words == {"argument", "point", "claim"}

\* any(word in full_text.lower() for word in ['argument', 'point', 'claim'])
has_argument_word(text) ==
    \E kw \in argument_words : contains_lower(text, kw)

calculate_confidence_nopenalty(bias_type, full_text) ==
    LET boosted == IF bias_type = "ad_hominem" /\ has_argument_word(full_text)
                   THEN base_confidence + ad_hominem_boost ELSE base_confidence
    IN Min2(100, Max2(0, boosted))

\* _calculate_confidence
calculate_confidence(bias_type, full_text) ==
    LET short == IF word_count(full_text) < short_text_words
                 THEN base_confidence - short_text_penalty ELSE base_confidence
        boosted == IF bias_type = "ad_hominem" /\ has_argument_word(full_text)
                   THEN short + ad_hominem_boost ELSE short
    IN Min2(100, Max2(0, boosted))

\* _determine_severity
determine_severity(confidence) ==
    IF confidence >= 80 THEN "high"
    ELSE IF confidence >= 60 THEN "medium" ELSE "low"

\* BiasAnalysis (its explanation is fixed by the type; the context, the text
\* around the match, is left out)
BiasAnalysis(bias_type, confidence, m) ==
    [bias_type |-> bias_type, confidence |-> confidence,
     severity |-> determine_severity(confidence)]

pattern_findings_unfiltered(bias_type, p, text) ==
    LET ms == finditer(p, text_lower(text), 1)
        conf == calculate_confidence(bias_type, text)
    IN [i \in 1..Len(ms) |-> BiasAnalysis(bias_type, conf, ms[i])]

\* the findings of one pattern
pattern_findings(bias_type, p, text) ==
    LET ms == finditer(p, text_lower(text), 1)
        conf == calculate_confidence(bias_type, text)
    IN IF conf > report_threshold
       THEN [i \in 1..Len(ms) |-> BiasAnalysis(bias_type, conf, ms[i])]
       ELSE <<>>

RECURSIVE patterns_findings(_, _, _, _)
patterns_findings(bias_type, ps, i, text) ==
    IF i > Len(ps) THEN <<>>
    ELSE pattern_findings(bias_type, ps[i], text)
         \o patterns_findings(bias_type, ps, i + 1, text)

RECURSIVE analyze_text_from(_, _)
analyze_text_from(k, text) ==
    IF k > Len(bias_patterns) THEN <<>>
    ELSE patterns_findings(bias_patterns[k].bias_type, bias_patterns[k].patterns, 1, text)
         \o analyze_text_from(k + 1, text)

\* BiasDetector.analyze_text
analyze_text(text) == analyze_text_from(1, text)

----------------------------------------------------------------------------
(* Decision policy and rate limiter (cognibot.py) *)

should_respond_llm_only(pattern_results, llm_result, threshold) ==
    llm_result.confidence > threshold /\ llm_result.has_biases

should_respond_nonstrict(pattern_results, llm_result, threshold) ==
    \/ \E i \in 1..Len(pattern_results) : pattern_results[i].confidence >= threshold
    \/ (llm_result.confidence >= threshold /\ llm_result.has_biases)

\* CogniBot._should_respond
should_respond(pattern_results, llm_result, threshold) ==
    LET high_confidence_patterns ==
            SelectSeq(pattern_results, LAMBDA r : r.confidence > threshold)
        llm_significant == llm_result.confidence > threshold /\ llm_result.has_biases
    IN Len(high_confidence_patterns) > 0 \/ llm_significant

timedelta_minutes_as_seconds(m) == m

\* timedelta(minutes=m), in clock ticks
timedelta_minutes(m) == m * TicksPerMinute

is_rate_limited_inclusive(last, chat_id, t, response_delay) ==
    IF chat_id \notin DOMAIN last THEN FALSE
    ELSE t - last[chat_id] <= timedelta_minutes(response_delay)

\* CogniBot._is_rate_limited, with datetime.now() = t
is_rate_limited(last, chat_id, t, response_delay) ==
    IF chat_id \notin DOMAIN last THEN FALSE
    ELSE LET time_since_last == t - last[chat_id]
         IN time_since_last < timedelta_minutes(response_delay)

record_response_all(last, chat_id, t) ==
    [c \in DOMAIN last \cup {chat_id} |-> t]

\* self.last_analysis_time[chat_id] = t
record_response(last, chat_id, t) ==
    [c \in DOMAIN last \cup {chat_id} |-> IF c = chat_id THEN t ELSE last[c]]

after_reply_always(last, chat_id, t, ok) == record_response(last, chat_id, t)

\* the rate-limit map once message.reply_text has ended: the assignment is
\* reached when the reply went out, and skipped when reply_text raised
after_reply(last, chat_id, t, ok) ==
    IF ok THEN record_response(last, chat_id, t) ELSE last

----------------------------------------------------------------------------
(* Reply formatting (cognibot.py) *)

\* bias_type.value.replace('_', ' ').title()
bias_name ==
    [ad_hominem |-> "Ad Hominem", strawman |-> "Strawman",
     false_dichotomy |-> "False Dichotomy",
     appeal_to_authority |-> "Appeal To Authority", bandwagon |-> "Bandwagon"]

ManualHeader == <<":mag:", "Manual Analysis Results:">>
AutoHeader == <<":brain:", "Cognitive Bias Analysis:">>

Disclaimer ==
    <<":bulb:", "This analysis aims to improve discussion quality, not to criticize. Consider this feedback constructively.">>

additional_patterns_high_only(pattern_results) ==
    LET high_confidence ==
            SelectSeq(pattern_results, LAMBDA r : r.severity = "high")
        listed == SubSeq(high_confidence, 1, Min2(3, Len(high_confidence)))
    IN IF high_confidence = <<>> THEN <<>>
       ELSE << <<":mag:", "Additional Patterns Detected:">> >>
            \o [i \in 1..Len(listed) |->
                   <<"*", bias_name[listed[i].bias_type],
                     ToString(listed[i].confidence)>>]

\* the findings listed after the summary: those above 0.6, three at most
additional_patterns(pattern_results) ==
    LET high_confidence ==
            SelectSeq(pattern_results,
                      LAMBDA r : r.confidence > additional_pattern_threshold)
        listed == SubSeq(high_confidence, 1, Min2(3, Len(high_confidence)))
    IN IF high_confidence = <<>> THEN <<>>
       ELSE << <<":mag:", "Additional Patterns Detected:">> >>
            \o [i \in 1..Len(listed) |->
                   <<"*", bias_name[listed[i].bias_type],
                     ToString(listed[i].confidence)>>]

format_analysis_response_disclaimer(pattern_results, llm_result, manual, message_link) ==
    << (IF manual THEN ManualHeader ELSE AutoHeader) >>
    \o format_analysis_summary(llm_result)
    \o additional_patterns(pattern_results)
    \o << Disclaimer >>
    \o (IF ~manual /\ message_link # None
        THEN << <<":link:", "View analyzed message", message_link>> >> ELSE <<>>)

\* CogniBot._format_analysis_response; message_link is the link of the
\* message replied to, None when there is no message or no link for it
format_analysis_response(pattern_results, llm_result, manual, message_link) ==
    << (IF manual THEN ManualHeader ELSE AutoHeader) >>
    \o format_analysis_summary(llm_result)
    \o additional_patterns(pattern_results)
    \o (IF ~manual THEN << Disclaimer >> ELSE <<>>)
    \o (IF ~manual /\ message_link # None
        THEN << <<":link:", "View analyzed message", message_link>> >> ELSE <<>>)

\* the fixed replies of analyze_command
UsageReply == << <<"Please provide text to analyze:", "/analyze Your text here">> >>
SorryReply == << <<"Sorry, analysis failed. Please try again later.">> >>

----------------------------------------------------------------------------
(* Inbound messages *)

Text(words, length) == [words |-> words, length |-> length]

\* message texts: their words and len(text)
SampleTexts == {
    Text(<<"You're", "clearly", "an", "idiot", "if", "you", "believe", "that.",
           "Only", "a", "moron", "would", "think", "otherwise.">>, 80),
    Text(<<"This", "is", "a", "well-reasoned", "argument", "with", "good",
           "evidence", "and", "respectful", "tone.">>, 72),
    Text(<<"Everyone", "knows", "this", "is", "true.", "Most", "people", "agree",
           "with", "this", "statement.">>, 67),
    Text(<<"you're", "stupid", "and", "your", "argument", "is", "weak,", "only",
           "a", "fool", "would", "say", "it">>, 65),
    Text(<<"you're", "dumb", "and", "that", "point", "is", "pointless">>, 39),
    Text(<<"you're", "dumb">>, 11),
    Text(<<"everyone", "knows", "this", "is", "true">>, 27),
    Text(<<>>, 0) }

----------------------------------------------------------------------------
(* State *)

VARIABLES
    settings,             \* analysis_threshold, response_delay, telegram_channels
    processed_messages,   \* CogniBot.processed_messages
    last_analysis_time,   \* CogniBot.last_analysis_time: chat -> time of last reply
    now,                  \* datetime.now(), in ticks
    task                  \* per handler: the call or message handling in progress

vars == <<settings, processed_messages, last_analysis_time, now, task>>

Pending == [raised |-> FALSE, pending |-> TRUE]

NoMsg == [chat |-> 0, message_id |-> 0]

IdleTask ==
    [pc |-> "idle", kind |-> "none", attempt |-> 0, failures |-> <<>>,
     delays |-> <<>>, latency |-> 0, outcome |-> <<>>, ret |-> Pending,
     analysis |-> <<>>,
     msg |-> NoMsg, pattern_results |-> <<>>, decision |-> "none",
     reply |-> "none", dropped |-> "no", since_last |-> <<>>, text |-> <<>>,
     sent |-> <<>>, exit |-> "none"]

\* a call that has just handed its first request to the transport
StartCall(kind) ==
    [IdleTask EXCEPT !.pc = "attempt", !.kind = kind, !.attempt = 1]

AllIdle == \A h \in Handlers : task[h].pc = "idle"

DefaultSettings ==
    [analysis_threshold |-> 70, response_delay |-> 0, telegram_channels |-> {}]

InitBot ==
    /\ processed_messages = {}
    /\ last_analysis_time = << >>
    /\ now = 0
    /\ task = [h \in Handlers |-> IdleTask]

\* configurations the bot is started with: the defaults, and others that
\* vary the threshold, the cooldown and the monitored channels
Configurations ==
    { DefaultSettings,
      [analysis_threshold |-> 50, response_delay |-> 1, telegram_channels |-> {}],
      [analysis_threshold |-> 70, response_delay |-> MaxDelayMinutes,
       telegram_channels |-> {}],
      [analysis_threshold |-> 80, response_delay |-> MaxDelayMinutes,
       telegram_channels |-> {1}] }

Init ==
    /\ settings \in Configurations
    /\ InitBot

InitClient ==
    /\ settings = DefaultSettings
    /\ InitBot

bot_vars == <<settings, processed_messages, last_analysis_time, now>>

----------------------------------------------------------------------------
(* Message handling (cognibot.py) *)

handle_message_filter_norate(msg_id, chat, text, processed, last, t, cfg) ==
    IF text.length = 0 THEN "no text"
    ELSE IF msg_id \in processed THEN "processed"
    ELSE IF cfg.telegram_channels # {} /\ chat \notin cfg.telegram_channels
         THEN "not monitored"
    ELSE IF text.length < min_message_length THEN "short"
    ELSE "no"

handle_message_filter_noprocessed(msg_id, chat, text, processed, last, t, cfg) ==
    IF text.length = 0 THEN "no text"
    ELSE IF cfg.telegram_channels # {} /\ chat \notin cfg.telegram_channels
         THEN "not monitored"
    ELSE IF text.length < min_message_length THEN "short"
    ELSE IF is_rate_limited(last, chat, t, cfg.response_delay) THEN "rate limited"
    ELSE "no"

\* the filters of handle_message, in order; "no" when the message is analyzed
handle_message_filter(msg_id, chat, text, processed, last, t, cfg) ==
    IF text.length = 0 THEN "no text"
    ELSE IF msg_id \in processed THEN "processed"
    ELSE IF cfg.telegram_channels # {} /\ chat \notin cfg.telegram_channels
         THEN "not monitored"
    ELSE IF text.length < min_message_length THEN "short"
    ELSE IF is_rate_limited(last, chat, t, cfg.response_delay) THEN "rate limited"
    ELSE "no"

\* handle_message up to its first suspension: a filtered message is dropped,
\* any other has its patterns analyzed and its first request sent
handle_message_start(h, chat, id, text) ==
    LET why == handle_message_filter(id, chat, text, processed_messages,
                                     last_analysis_time, now, settings)
        m == [chat |-> chat, message_id |-> id]
    IN /\ task' = [task EXCEPT ![h] =
              IF why # "no"
              THEN [IdleTask EXCEPT !.pc = "done", !.kind = "auto", !.msg = m,
                                    !.dropped = why, !.exit = "returned"]
              ELSE [StartCall("auto") EXCEPT !.msg = m,
                        !.pattern_results = analyze_text(text.words)]]
       /\ UNCHANGED bot_vars

\* a message is delivered while no other update is being handled
HandleMessage(h) ==
    \E chat \in Chats, id \in MsgIds, text \in SampleTexts :
        /\ AllIdle
        /\ handle_message_start(h, chat, id, text)

\* a message of chat 1 is delivered to a handler that is free, while other
\* handlers may be suspended (updates processed concurrently)
ConcurrentTexts == {s \in SampleTexts : s.length \in {80, 72}}

HandleMessageConcurrently(h) ==
    \E id \in MsgIds, text \in ConcurrentTexts :
        /\ task[h].pc = "idle"
        /\ handle_message_start(h, 1, id, text)

mark_processed_never(processed, msg_id) == processed

\* the finally clause of handle_message: self.processed_messages.add(message_id)
mark_processed(processed, msg_id) == processed \cup {msg_id}

TelegramError == Exc("TelegramError", <<>>)

except_exception_nothing(class) == FALSE

\* `except Exception` in handle_message and around reply_text: it catches the
\* exceptions of the client and of the connector
except_exception(class) == class \in ExceptionClasses \cup {TelegramError.class}

\* how handle_message ends when the analysis or the reply has ended with
\* `call`: an exception that is caught is logged and the handler returns
handle_message_exit(call) ==
    IF call.raised /\ ~except_exception(call.exc.class)
    THEN "raised" ELSE "returned"

\* _analyze_and_respond once analyze_message has returned r (or raised): the
\* decision, then either the reply is handed to the connector or handling ends
\* (handle_message's finally clause marks the message processed)
AfterAnalysis(h, t, r) ==
    LET base == [t EXCEPT !.attempt = 0, !.failures = <<>>, !.delays = <<>>,
                          !.latency = 0, !.ret = r]
        respond == ~r.raised /\ should_respond(t.pattern_results, r.value,
                                               settings.analysis_threshold)
    IN IF respond
       THEN /\ task' = [task EXCEPT ![h] =
                          [base EXCEPT !.pc = "send", !.decision = "respond"]]
            /\ UNCHANGED bot_vars
       ELSE /\ task' = [task EXCEPT ![h] =
                          [base EXCEPT !.pc = "done",
                              !.decision = IF r.raised THEN "none" ELSE "silent",
                              !.exit = handle_message_exit(r)]]
            /\ processed_messages' = mark_processed(processed_messages, t.msg.message_id)
            /\ UNCHANGED <<settings, last_analysis_time, now>>

\* the operation that made the call takes over its result
CallCompleted(h, t, call) ==
    CASE t.kind = "analyze" ->
           /\ task' = [task EXCEPT ![h] =
                  [t EXCEPT !.pc = "done", !.ret = analyze_message_complete(call)]]
           /\ UNCHANGED bot_vars
      [] t.kind = "followup" ->
           /\ task' = [task EXCEPT ![h] =
                  [t EXCEPT !.pc = "done",
                            !.ret = generate_educational_response_complete(call)]]
           /\ UNCHANGED bot_vars
      [] t.kind = "manual" ->
           /\ task' = [task EXCEPT ![h] =
                  [t EXCEPT !.pc = "reply", !.attempt = 0, !.delays = <<>>,
                            !.ret = analyze_message_complete(call)]]
           /\ UNCHANGED bot_vars
      [] OTHER -> AfterAnalysis(h, t, analyze_message_complete(call))

\* the history of a call (the exceptions of its failed attempts, the outcome of
\* its last attempt, the seconds it has taken) is kept for the calls made
\* directly on the client
Observed(t) == t.kind \in {"analyze", "followup"}

\* a transport attempt ends, with a response or an exception
AttemptEnds(h) ==
    /\ task[h].pc = "attempt"
    /\ \E o \in Outcomes :
       \E took \in (IF Observed(task[h]) THEN AttemptDurations(o) ELSE {0}) :
        LET t0 == task[h]
            t == IF Observed(t0)
                 THEN [t0 EXCEPT !.latency = @ + took,
                                 !.outcome = <<o>>,
                                 !.failures = IF o.kind = "raise"
                                              THEN Append(@, o.exc) ELSE @]
                 ELSE t0
            step == make_api_call_with_retry_step(t.attempt, o)
        IN IF step.act = "sleep"
           THEN /\ task' = [task EXCEPT ![h] =
                      [t EXCEPT !.pc = "backoff", !.delays = Append(@, step.delay)]]
                /\ UNCHANGED bot_vars
           ELSE CallCompleted(h, t, step.call)

\* asyncio.sleep(delay) is over: the loop goes to its next iteration, or ends
\* when there is none
BackoffElapsed(h) ==
    /\ task[h].pc = "backoff"
    /\ LET t0 == task[h]
           t == [t0 EXCEPT !.latency = IF Observed(t0)
                                       THEN @ + t0.delays[Len(t0.delays)] ELSE @,
                           !.attempt = @ + 1]
       IN IF loop_exhausted(t.attempt)
          THEN CallCompleted(h, t, Raised(Exc("Exception",
                                   <<"Unexpected error in retry logic">>)))
          ELSE /\ task' = [task EXCEPT ![h] = [t EXCEPT !.pc = "attempt"]]
               /\ UNCHANGED bot_vars

\* message.reply_text ends: the reply went out and the chat's time is
\* recorded, or the connector failed; either way the message is processed
SendEnds(h) ==
    /\ task[h].pc = "send"
    /\ \E ok \in BOOLEAN :
        LET t == task[h]
        IN /\ task' = [task EXCEPT ![h] =
                  [t EXCEPT !.pc = "done", !.reply = IF ok THEN "sent" ELSE "failed",
                            !.exit = handle_message_exit(
                                IF ok THEN Returned(None) ELSE Raised(TelegramError)),
                            !.since_last =
                                IF ok /\ t.msg.chat \in DOMAIN last_analysis_time
                                THEN <<now - last_analysis_time[t.msg.chat]>>
                                ELSE <<>>]]
           /\ last_analysis_time' =
                  after_reply(last_analysis_time, t.msg.chat, now, ok)
           /\ processed_messages' = mark_processed(processed_messages, t.msg.message_id)
           /\ UNCHANGED <<settings, now>>

CancelledError == Exc("CancelledError", <<>>)

\* the task handling a message is cancelled while it is suspended in a
\* transport attempt or in a backoff sleep: CancelledError is no Exception, so
\* it passes every except clause on its way out of handle_message, whose
\* finally clause still runs
Cancel(h) ==
    /\ task[h].kind = "auto"
    /\ task[h].pc \in {"attempt", "backoff"}
    /\ task' = [task EXCEPT ![h] =
           [@ EXCEPT !.pc = "done", !.attempt = 0, !.delays = <<>>,
                     !.ret = Raised(CancelledError),
                     !.exit = handle_message_exit(Raised(CancelledError))]]
    /\ processed_messages' =
           mark_processed(processed_messages, task[h].msg.message_id)
    /\ UNCHANGED <<settings, last_analysis_time, now>>

\* the operation has returned to its caller
HandlerReturns(h) ==
    /\ task[h].pc = "done"
    /\ task' = [task EXCEPT ![h] = IdleTask]
    /\ UNCHANGED bot_vars

\* the wall clock advances, while the handler is suspended or between two
\* messages (a handler that is done returns without waiting)
Tick ==
    /\ now < MaxTime
    /\ \A h \in Handlers : task[h].pc # "done"
    /\ now' = now + 1
    /\ UNCHANGED <<settings, processed_messages, last_analysis_time, task>>

\* a direct call of LLMAnalyzer.analyze_message
CallAnalyze(h) ==
    /\ AllIdle
    /\ task' = [task EXCEPT ![h] = StartCall("analyze")]
    /\ UNCHANGED bot_vars

\* a call of LLMAnalyzer.generate_educational_response
CallFollowup(h) ==
    /\ AllIdle
    /\ \E a \in AnalysisSamples :
        task' = [task EXCEPT ![h] =
            IF followup_skips(a)
            THEN [IdleTask EXCEPT !.pc = "done", !.kind = "followup",
                                  !.analysis = <<a>>, !.ret = Returned(None)]
            ELSE [StartCall("followup") EXCEPT !.analysis = <<a>>]]
    /\ UNCHANGED bot_vars

\* the texts of manual requests: " ".join(context.args)
ManualTexts ==
    {s.words : s \in {x \in SampleTexts : x.length \in {80, 72, 39, 11}}}

\* analyze_command up to its first suspension in the client: without
\* arguments the usage text is sent; otherwise the typing indicator is sent
\* (a failure of it ends the handler), the patterns are analyzed and the first
\* request goes out
AnalyzeCommand(h) ==
    \E chat \in Chats, args \in {<<>>} \cup ManualTexts, ok \in BOOLEAN :
        LET m == [chat |-> chat, message_id |-> 0]
            ended(sent) ==
                [IdleTask EXCEPT !.pc = "done", !.kind = "manual", !.msg = m,
                    !.text = args, !.sent = sent,
                    !.ret = IF ok THEN Returned(None)
                            ELSE Raised(Exc("TelegramError", <<>>))]
        IN /\ AllIdle
           /\ task' = [task EXCEPT ![h] =
                  IF args = <<>> THEN ended(IF ok THEN <<UsageReply>> ELSE <<>>)
                  ELSE IF ~ok THEN ended(<<>>)
                  ELSE [StartCall("manual") EXCEPT !.msg = m, !.text = args,
                            !.pattern_results = analyze_text(args)]]
           /\ UNCHANGED bot_vars

\* the rest of analyze_command: the analysis is formatted and sent; when that
\* raises, the fixed failure text is sent instead, and a failure of this send
\* ends the handler with the exception
ManualReplyEnds(h) ==
    /\ task[h].pc = "reply"
    /\ \E ok \in BOOLEAN, sorry_ok \in BOOLEAN :
        LET t == task[h]
            response == format_analysis_response(t.pattern_results, t.ret.value,
                                                 TRUE, None)
        IN /\ task' = [task EXCEPT ![h] =
                  IF ok /\ ~t.ret.raised
                  THEN [t EXCEPT !.pc = "done", !.sent = <<response>>]
                  ELSE IF sorry_ok
                  THEN [t EXCEPT !.pc = "done", !.sent = <<SorryReply>>]
                  ELSE [t EXCEPT !.pc = "done",
                                 !.ret = Raised(Exc("TelegramError", <<>>))]]
           /\ UNCHANGED bot_vars

----------------------------------------------------------------------------
(* Specifications *)

\* the handler that runs when updates are processed one at a time
Sequential == {1}

\* the bot: messages handled one at a time
Next ==
    \/ \E h \in Sequential : HandleMessage(h)
    \/ \E h \in Sequential : AttemptEnds(h)
    \/ \E h \in Sequential : BackoffElapsed(h)
    \/ \E h \in Sequential : SendEnds(h)
    \/ \E h \in Sequential : HandlerReturns(h)
    \/ Tick

Spec == Init /\ [][Next]_vars

\* the bot, with handling tasks that can be cancelled
NextCancel ==
    \/ Next
    \/ \E h \in Sequential : Cancel(h)

SpecCancel == Init /\ [][NextCancel]_vars

\* the language-model client called directly
NextClient ==
    \/ \E h \in Sequential : CallAnalyze(h)
    \/ \E h \in Sequential : CallFollowup(h)
    \/ \E h \in Sequential : AttemptEnds(h)
    \/ \E h \in Sequential : BackoffElapsed(h)
    \/ \E h \in Sequential : HandlerReturns(h)

SpecClient == InitClient /\ [][NextClient]_vars

\* the bot with updates processed concurrently, with a cooldown configured
InitConcurrent ==
    /\ settings = [analysis_threshold |-> 50, response_delay |-> 1,
                   telegram_channels |-> {}]
    /\ InitBot

NextConcurrent ==
    \/ \E h \in Handlers : HandleMessageConcurrently(h)
    \/ \E h \in Handlers : AttemptEnds(h)
    \/ \E h \in Handlers : BackoffElapsed(h)
    \/ \E h \in Handlers : SendEnds(h)
    \/ \E h \in Handlers : HandlerReturns(h)

SpecConcurrent == InitConcurrent /\ [][NextConcurrent]_vars

\* the client called directly, where every transport attempt ends (wait_for
\* cuts it at the timeout) and every asyncio.sleep elapses
SpecClientLive ==
    /\ SpecClient
    /\ \A h \in Sequential : WF_vars(AttemptEnds(h))
    /\ \A h \in Sequential : WF_vars(BackoffElapsed(h))

\* the rate-limit map on its own: any recorded replies, any time
PartialMaps(D, R) == UNION {[S -> R] : S \in SUBSET D}

InitLimiter ==
    /\ settings \in Configurations
    /\ processed_messages = {}
    /\ last_analysis_time \in PartialMaps(Chats, 0..MaxTime)
    /\ now \in 0..MaxTime
    /\ task = [h \in Handlers |-> IdleTask]

\* self.last_analysis_time[message.chat.id] = datetime.now()
RecordResponse(h) ==
    \E chat \in Chats :
        /\ task[h].pc = "idle"
        /\ \A c \in DOMAIN last_analysis_time : last_analysis_time[c] <= now
        /\ task' = [task EXCEPT ![h] =
               [IdleTask EXCEPT !.pc = "done", !.kind = "record",
                                !.msg = [chat |-> chat, message_id |-> 0]]]
        /\ last_analysis_time' = record_response(last_analysis_time, chat, now)
        /\ UNCHANGED <<settings, processed_messages, now>>

NextLimiter ==
    \/ \E h \in Sequential : RecordResponse(h)
    \/ \E h \in Sequential : HandlerReturns(h)

SpecLimiter == InitLimiter /\ [][NextLimiter]_vars

\* manual requests, to a bot that has or has not replied to chat 1 at time 0
\* and processed message 1
InitManual ==
    /\ settings \in Configurations
    /\ processed_messages \in {{}, {1}}
    /\ last_analysis_time \in {<< >>, [c \in {1} |-> 0]}
    /\ now = 0
    /\ task = [h \in Handlers |-> IdleTask]

NextManual ==
    \/ \E h \in Sequential : AnalyzeCommand(h)
    \/ \E h \in Sequential : AttemptEnds(h)
    \/ \E h \in Sequential : BackoffElapsed(h)
    \/ \E h \in Sequential : ManualReplyEnds(h)
    \/ \E h \in Sequential : HandlerReturns(h)

SpecManual == InitManual /\ [][NextManual]_vars

\* the decision policy on its own: any findings, any result, any threshold
PolicyConfidences == {0, 60, 70, 71, 100}
PolicyThresholds == {0, 60, 70, 100}

RECURSIVE SeqsUpTo(_, _)
SeqsUpTo(S, n) ==
    IF n = 0 THEN {<<>>}
    ELSE LET shorter == SeqsUpTo(S, n - 1)
         IN shorter \cup {Append(q, x) : q \in shorter, x \in S}

PolicyFindings ==
    SeqsUpTo({[bias_type |-> "bandwagon", confidence |-> c,
               severity |-> determine_severity(c)] : c \in PolicyConfidences},
             MaxFindings)

PolicyResults ==
    {LLMAnalysisResult(hb, c, <<>>, "fair", <<>>, <<>>, "s", None, NoMessage) :
        hb \in BOOLEAN, c \in {0, 70, 71, 120}}
    \cup {create_fallback_result(k, <<"failed">>) : k \in APIErrorType}

InitPolicy ==
    /\ settings \in {[DefaultSettings EXCEPT !.analysis_threshold = th] :
                        th \in PolicyThresholds}
    /\ processed_messages = {}
    /\ last_analysis_time = << >>
    /\ now = 0
    /\ \E f \in PolicyFindings, r \in PolicyResults :
        task = [h \in Handlers |->
                   IF h = 1
                   THEN [IdleTask EXCEPT !.pc = "decide", !.kind = "policy",
                                         !.pattern_results = f, !.ret = Returned(r)]
                   ELSE IdleTask]

\* what _create_message_link gives: a link for a channel or supergroup, None
\* for a private chat or a group
MessageLinks == {None, "https://t.me/c/1/1"}

\* CogniBot._should_respond is applied and, when it says so, the reply is
\* formatted
Decide(h) ==
    /\ task[h].pc = "decide"
    /\ \E link \in MessageLinks :
       LET t == task[h]
           respond == should_respond(t.pattern_results, t.ret.value,
                                     settings.analysis_threshold)
       IN task' = [task EXCEPT ![h] =
           [t EXCEPT !.pc = "done",
                     !.decision = IF respond THEN "respond" ELSE "silent",
                     !.sent = IF respond
                              THEN <<format_analysis_response(
                                        t.pattern_results, t.ret.value, FALSE, link)>>
                              ELSE <<>>]]
    /\ UNCHANGED bot_vars

NextPolicy == \E h \in Sequential : Decide(h)

SpecPolicy == InitPolicy /\ [][NextPolicy]_vars

\* the formatter on its own: any result, with or without an error kind
SuggestionLists ==
    {[i \in 1..n |-> "suggestion " \o ToString(i)] : n \in 0..MaxSuggestions}

ErrorResults ==
    {LLMAnalysisResult(hb, c, <<>>, "unknown", issues, sugg, "Test summary", k, msg) :
        hb \in BOOLEAN, c \in {0, 90},
        issues \in {<<>>, <<"hostile tone">>},
        sugg \in {<<>>, <<"Test suggestion">>},
        k \in APIErrorType,
        msg \in {NoMessage, <<"Test", "error", "message">>,
                 <<"Unexpected", "error:", "boom">>}}

NormalResults ==
    {LLMAnalysisResult(hb, c, biases, q, issues, sugg, summ, None, NoMessage) :
        hb \in BOOLEAN, c \in {40, 60, 90},
        biases \in {<<>>, <<"ad hominem">>},
        q \in {"poor", "unknown"},
        issues \in {<<>>, <<"hostile tone">>},
        sugg \in SuggestionLists,
        summ \in {"", "s"}}

FormatResults == ErrorResults \cup NormalResults

InitFormat ==
    /\ settings = DefaultSettings
    /\ processed_messages = {}
    /\ last_analysis_time = << >>
    /\ now = 0
    /\ \E a \in FormatResults :
        task = [h \in Handlers |->
                   IF h = 1
                   THEN [IdleTask EXCEPT !.pc = "format", !.kind = "format",
                                         !.analysis = <<a>>]
                   ELSE IdleTask]

\* LLMAnalyzer.format_analysis_summary is applied
Format(h) ==
    /\ task[h].pc = "format"
    /\ LET t == task[h] IN
       task' = [task EXCEPT ![h] =
           [t EXCEPT !.pc = "done",
                     !.ret = Returned(format_analysis_summary(t.analysis[1]))]]
    /\ UNCHANGED bot_vars

NextFormat == \E h \in Sequential : Format(h)

SpecFormat == InitFormat /\ [][NextFormat]_vars

\* the detector on its own: short and long texts, with and without matches
Vocabulary == {"You're", "stupid", "argument", "everyone", "knows"}

\* words that match nothing, enough of them to make a text long
Padding == [i \in 1..short_text_words |-> "indeed"]

\* the sentence of test_ad_hominem_detection
AdHominemTestSentence ==
    <<"you're", "clearly", "an", "idiot", "if", "you", "believe", "that",
      "nonsense.">>

DetectorTexts ==
    {s.words : s \in SampleTexts} \cup {AdHominemTestSentence}
    \cup {core \o pad : core \in SeqsUpTo(Vocabulary, MaxCoreWords),
                         pad \in {<<>>, Padding}}

InitDetector ==
    /\ settings = DefaultSettings
    /\ processed_messages = {}
    /\ last_analysis_time = << >>
    /\ now = 0
    /\ \E text \in DetectorTexts :
        task = [h \in Handlers |->
                   IF h = 1
                   THEN [IdleTask EXCEPT !.pc = "detect", !.kind = "detect",
                                         !.text = text]
                   ELSE IdleTask]

\* BiasDetector.analyze_text is applied
AnalyzeText(h) ==
    /\ task[h].pc = "detect"
    /\ LET t == task[h] IN
       task' = [task EXCEPT ![h] =
           [t EXCEPT !.pc = "done", !.pattern_results = analyze_text(t.text)]]
    /\ UNCHANGED bot_vars

NextDetector == \E h \in Sequential : AnalyzeText(h)

SpecDetector == InitDetector /\ [][NextDetector]_vars

----------------------------------------------------------------------------
(* Properties of the language-model client *)

\* a direct call of analyze_message that has returned to its caller
AnalyzeDone(h) == task[h].kind = "analyze" /\ task[h].pc = "done"

AllRetryable(f) == \A i \in 1..Len(f) : f[i].class \in RetryableErrors

\* C1: no call of the client (analyze_message, generate_educational_response,
\* directly or from message handling) has more than 3 transport attempts:
\* the attempt in flight is never a fourth one, and never more than 3 attempts
\* have failed.
C1_AtMostThreeAttempts ==
    \A h \in Handlers :
        /\ task[h].pc = "attempt" => task[h].attempt \in 1..3
        /\ Len(task[h].failures) <= 3

\* C1 witness: an elaboration call whose three attempts were all made
C1_Witness ==
    \E h \in Handlers :
        /\ task[h].kind = "followup" /\ task[h].pc = "done"
        /\ task[h].attempt = 3 /\ Len(task[h].failures) = 3

\* C2: a non-retryable failure (authentication, rate limit, bad request) is
\* the last attempt of its call: the call is over at once, with as many
\* attempts as failures and no backoff wait after it; an authentication
\* rejection of the first attempt gives one attempt, no wait, INVALID_API_KEY.
C2_NonRetryableEndsCall ==
    \A h \in Handlers :
        LET t == task[h] f == t.failures IN
        Observed(t) =>
            /\ \A i \in 1..Len(f) :
                  f[i].class \in NonRetryableErrors =>
                      /\ i = Len(f)
                      /\ t.pc = "done"
                      /\ t.attempt = i
                      /\ Len(t.delays) = i - 1
            /\ (t.kind = "analyze" /\ Len(f) = 1 /\ f[1].class = "AuthenticationError") =>
                  /\ t.attempt = 1
                  /\ t.delays = <<>>
                  /\ ~t.ret.raised
                  /\ t.ret.value.api_error = "invalid_api_key"

\* C2 witness: an analysis rejected for authentication at its first attempt
C2_Witness ==
    \E h \in Handlers :
        /\ AnalyzeDone(h)
        /\ Len(task[h].failures) = 1
        /\ task[h].failures[1].class = "AuthenticationError"

\* C3: an analysis whose three attempts all failed with retryable outcomes
\* returns the error kind of the third failure (timeout or connection failure:
\* NETWORK_ERROR; server fault: SERVICE_UNAVAILABLE) with has_biases false.
C3_ExhaustedRetriesKind ==
    \A h \in Handlers :
        LET t == task[h] f == t.failures IN
        (AnalyzeDone(h) /\ Len(f) = 3 /\ AllRetryable(f)) =>
            /\ ~t.ret.raised
            /\ t.ret.value.has_biases = FALSE
            /\ t.ret.value.api_error =
                  IF f[3].class = "InternalServerError"
                  THEN "service_unavailable" ELSE "network_error"

\* C3 witness: three timeouts in a row, answered with NETWORK_ERROR
C3_Witness ==
    \E h \in Handlers :
        /\ AnalyzeDone(h)
        /\ Len(task[h].failures) = 3
        /\ \A i \in 1..3 : task[h].failures[i].class = "TimeoutError"
        /\ task[h].ret.value.api_error = "network_error"

ResultFields == {"has_biases", "confidence", "detected_biases", "reasoning_quality",
                 "discussion_issues", "suggestions", "summary", "api_error",
                 "error_message"}

\* C5: analyze_message never raises: whatever the attempts ended with, the
\* call returns an analysis result.
C5_AnalyzeNeverRaises ==
    \A h \in Handlers :
        (task[h].kind \in {"analyze", "auto"} /\ task[h].pc \in {"done", "send"}
            /\ task[h].dropped = "no") =>
            /\ ~task[h].ret.raised
            /\ DOMAIN task[h].ret.value = ResultFields
            /\ task[h].ret.value.api_error \in APIErrorType \cup {None}

\* C5 witness: the transport raised an exception of no service error class,
\* or answered with JSON that is no object, and a result came back
C5_Witness ==
    \E h \in Handlers :
        /\ AnalyzeDone(h)
        /\ LET o == task[h].outcome[1] IN
           \/ (o.kind = "raise" /\ o.exc.class \in UnclassifiedErrors)
           \/ (o.kind = "response" /\ o.content.form = "array")
        /\ ~task[h].ret.raised

ExpectedHint(kind) ==
    CASE kind = "invalid_api_key" ->
           "OpenAI API key is invalid or expired - please check configuration"
      [] kind = "rate_limited" ->
           "API rate limit exceeded - analysis will resume shortly"
      [] kind = "insufficient_quota" ->
           "OpenAI quota exceeded - please check billing and usage limits"
      [] kind = "network_error" ->
           "Network connection issue - please check internet connectivity"
      [] kind = "service_unavailable" ->
           "OpenAI service temporarily unavailable - please try again later"
      [] OTHER -> "LLM analysis temporarily unavailable due to technical issues"

\* C6: a result of analyze_message that carries an error kind has has_biases
\* false, confidence 0.0, no detected biases, no discussion issues, and exactly
\* one suggestion, the recovery hint of its kind.
C6_ErrorResultShape ==
    \A h \in Handlers :
        (AnalyzeDone(h) /\ ~task[h].ret.raised
            /\ task[h].ret.value.api_error # None) =>
            LET r == task[h].ret.value IN
            /\ r.has_biases = FALSE
            /\ r.confidence = 0
            /\ r.detected_biases = <<>>
            /\ r.discussion_issues = <<>>
            /\ r.suggestions = <<ExpectedHint(r.api_error)>>

\* C6 witness: a rate-limited analysis
C6_Witness ==
    \E h \in Handlers :
        /\ AnalyzeDone(h)
        /\ ~task[h].ret.raised
        /\ task[h].ret.value.api_error = "rate_limited"

\* rejection texts that mention quota or billing, in any case
QuotaTexts == { <<"Billing", "quota", "exceeded">>, <<"QUOTA">>,
                <<"Quotas", "low">>, <<"check", "Billing">> }

\* C7: the outcome that ends an analysis is classified: authentication failure
\* INVALID_API_KEY; rate-limit rejection RATE_LIMITED; bad request mentioning
\* quota or billing (any case) INSUFFICIENT_QUOTA; any other bad request, a
\* body that is no JSON, an error of no known class UNKNOWN_ERROR; and every
\* error kind is one of the six.
C7_Classification ==
    \A h \in Handlers :
        (AnalyzeDone(h) /\ ~task[h].ret.raised) =>
            LET o == task[h].outcome[1]
                kind == task[h].ret.value.api_error
            IN /\ kind \in APIErrorType \cup {None}
               /\ o.kind = "raise" =>
                    /\ o.exc.class = "AuthenticationError" => kind = "invalid_api_key"
                    /\ o.exc.class = "RateLimitError" => kind = "rate_limited"
                    /\ o.exc.class = "BadRequestError" =>
                          kind = IF o.exc.text \in QuotaTexts
                                 THEN "insufficient_quota" ELSE "unknown_error"
                    /\ o.exc.class \in UnclassifiedErrors => kind = "unknown_error"
               /\ (o.kind = "response" /\ o.content.form = "invalid") =>
                    kind = "unknown_error"

\* C7 witness: a bad request whose text says QUOTA in capitals
C7_Witness ==
    \E h \in Handlers :
        /\ AnalyzeDone(h)
        /\ task[h].outcome[1].kind = "raise"
        /\ task[h].outcome[1].exc = Exc("BadRequestError", <<"QUOTA">>)
        /\ task[h].ret.value.api_error = "insufficient_quota"

----------------------------------------------------------------------------
(* Properties of the decision policy and of the rate limiter *)

Crossing(findings, threshold) ==
    \E i \in 1..Len(findings) : findings[i].confidence > threshold

\* C8: should_respond is true if and only if some finding has a confidence
\* strictly above the threshold, or the result has has_biases and a confidence
\* strictly above the threshold.
C8_ShouldRespondIff ==
    \A h \in Handlers :
        (task[h].kind = "policy" /\ task[h].pc = "done") =>
            LET t == task[h] r == t.ret.value IN
            (t.decision = "respond") <=>
                \/ Crossing(t.pattern_results, settings.analysis_threshold)
                \/ (r.has_biases = TRUE /\ r.confidence > settings.analysis_threshold)

\* C8 witness: a finding and a result exactly at the threshold, and a decision
\* not to respond
C8_Witness ==
    \E h \in Handlers :
        /\ task[h].kind = "policy" /\ task[h].pc = "done"
        /\ task[h].decision = "silent"
        /\ Len(task[h].pattern_results) > 0
        /\ task[h].pattern_results[1].confidence = settings.analysis_threshold
        /\ task[h].ret.value.has_biases = TRUE
        /\ task[h].ret.value.confidence = settings.analysis_threshold

\* a message whose analysis ended in an error of the language-model client
DegradedTask(t) ==
    /\ t.kind = "auto" /\ t.dropped = "no"
    /\ t.pc \in {"send", "done"}
    /\ ~t.ret.raised
    /\ t.ret.value.api_error # None

LimiterTimes == 0..(MaxTime + MaxDelayMinutes * TicksPerMinute)

\* C10: at every time t a chat is limited if and only if a reply to it is
\* recorded, at T, and t - T is less than the cooldown C: never without a
\* record, always for T <= t < T+C, never for t >= T+C.
C10_RateLimiter ==
    \A c \in Chats : \A t \in LimiterTimes :
        LET limited == is_rate_limited(last_analysis_time, c, t, settings.response_delay)
            C == settings.response_delay * TicksPerMinute
        IN /\ limited <=> (c \in DOMAIN last_analysis_time
                           /\ t - last_analysis_time[c] < C)
           /\ c \notin DOMAIN last_analysis_time => ~limited
           /\ c \in DOMAIN last_analysis_time =>
                LET T == last_analysis_time[c] IN
                /\ (T <= t /\ t < T + C) => limited
                /\ t >= T + C => ~limited

\* C10 witness: a message dropped because its chat is limited
C10_Witness ==
    \E h \in Handlers :
        /\ task[h].kind = "auto" /\ task[h].dropped = "rate limited"
        /\ task[h].msg.chat \in DOMAIN last_analysis_time
        /\ settings.response_delay > 0

----------------------------------------------------------------------------
(* Properties of the rate-limit map and of the processed set *)

\* C11: the rate-limit entry of a chat is created or overwritten only in a
\* step in which a reply to that chat was sent, and then it becomes the time
\* of that step; every other step (a message analyzed without a reply, a reply
\* that fails to send, a message dropped by a filter) leaves the whole map
\* unchanged.
C11_RateLimitOnlyOnReply ==
    [][ last_analysis_time' # last_analysis_time =>
           \E h \in Handlers :
               /\ task[h].pc = "send"
               /\ task'[h].pc = "done" /\ task'[h].reply = "sent"
               /\ last_analysis_time' =
                     [c \in DOMAIN last_analysis_time \cup {task[h].msg.chat} |->
                        IF c = task[h].msg.chat THEN now ELSE last_analysis_time[c]]
      ]_vars

\* C11 witness: a reply failed to send and its chat has no rate-limit entry
C11_Witness ==
    \E h \in Handlers :
        /\ task[h].kind = "auto" /\ task[h].pc = "done"
        /\ task[h].reply = "failed"
        /\ task[h].msg.chat \notin DOMAIN last_analysis_time

\* C12: with messages handled one at a time, a reply is sent to a chat that
\* already got one only when at least the cooldown has passed since the last
\* reply to that chat, so any two replies to a chat are at least the cooldown
\* apart.
C12_RepliesCooldownApart ==
    [][ \A h \in Handlers :
           ( /\ task[h].pc = "send"
             /\ task'[h].reply = "sent"
             /\ task[h].msg.chat \in DOMAIN last_analysis_time )
           => now - last_analysis_time[task[h].msg.chat]
                 >= settings.response_delay * TicksPerMinute
      ]_vars

\* C12 witness: under a positive cooldown a second reply went to a chat, a
\* cooldown or more after the first
C12_Witness ==
    \E h \in Handlers :
        /\ task[h].pc = "done" /\ task[h].reply = "sent"
        /\ settings.response_delay > 0
        /\ task[h].since_last # <<>>
        /\ task[h].since_last[1] >= settings.response_delay * TicksPerMinute

\* C13: with messages handled one at a time, the processed set only grows; a
\* delivery whose identifier is in it is dropped at once (no analysis, no
\* reply); an analysis that ends, and a reply that is sent, put the identifier
\* in it. So an identifier is analyzed at most once and replied to at most once.
C13_Idempotent ==
    [][ /\ processed_messages \subseteq processed_messages'
        /\ \A h \in Handlers :
            /\ ( /\ task[h].pc = "idle" /\ task'[h].kind = "auto"
                 /\ task'[h].msg.message_id \in processed_messages )
               => ( /\ task'[h].pc = "done" /\ task'[h].dropped # "no"
                    /\ task'[h].reply = "none"
                    /\ task'[h].pattern_results = <<>> )
            /\ ( /\ task[h].kind = "auto"
                 /\ task[h].pc \in {"attempt", "backoff", "send"} )
               => /\ task[h].msg.message_id \notin processed_messages
                  /\ task'[h].pc = "done" =>
                        task[h].msg.message_id \in processed_messages'
            /\ (task[h].reply # "sent" /\ task'[h].reply = "sent")
               => /\ task[h].msg.message_id \notin processed_messages
                  /\ task[h].msg.message_id \in processed_messages'
      ]_vars

\* C13 witness: a delivery dropped because its identifier was processed
C13_Witness ==
    \E h \in Handlers :
        /\ task[h].kind = "auto" /\ task[h].pc = "done"
        /\ task[h].dropped = "processed"
        /\ task[h].msg.message_id \in processed_messages

----------------------------------------------------------------------------
(* Properties of the summary formatter *)

\* a result has been formatted
Formatted(h) == task[h].kind = "format" /\ task[h].pc = "done"

\* C14 as amended: for each of the five specific error kinds the summary of a
\* result is one sentence fixed by the kind, the same for every result of
\* that kind whatever its other fields; for the unknown kind it is the fixed
\* heading followed by the result's error_message (a default when there is
\* none), the same for every result of that kind with that error_message.
C14_ErrorSummaryByKind ==
    \A h \in Handlers :
        (Formatted(h) /\ task[h].analysis[1].api_error # None) =>
            LET a == task[h].analysis[1] IN
            /\ Len(task[h].ret.value) = 1
            /\ \A b \in ErrorResults :
                 ( /\ b.api_error = a.api_error
                   /\ a.api_error = "unknown_error" =>
                         b.error_message = a.error_message )
                 => format_analysis_summary(b) = task[h].ret.value

\* C14 witness: an unknown error with a message has been formatted, and the
\* message is in the text
C14_Witness ==
    \E h \in Handlers :
        /\ Formatted(h)
        /\ task[h].analysis[1].api_error = "unknown_error"
        /\ task[h].analysis[1].error_message = <<"Unexpected", "error:", "boom">>
        /\ task[h].ret.value =
              << <<":x:", "Analysis Error", "Unexpected", "error:", "boom">> >>

\* C14 as stated: any two results with the same error kind have the same
\* summary, whatever their other fields, error_message included.
C14_Original ==
    \A h \in Handlers :
        (Formatted(h) /\ task[h].analysis[1].api_error # None) =>
            \A b \in ErrorResults :
                b.api_error = task[h].analysis[1].api_error
                => format_analysis_summary(b) = task[h].ret.value

\* the heading of each error kind
ErrorHeading ==
    [invalid_api_key |-> "Configuration Issue", rate_limited |-> "Rate Limited",
     insufficient_quota |-> "Quota Exceeded",
     service_unavailable |-> "Service Unavailable",
     network_error |-> "Connection Issue", unknown_error |-> "Analysis Error"]

\* C15: the summary of a result with an error kind is one line whose heading
\* is the heading of that kind, and is never the good-quality sentence,
\* whatever has_biases and discussion_issues are; for RATE_LIMITED it is the
\* rate-limit sentence.
C15_ErrorHeadings ==
    \A h \in Handlers :
        (Formatted(h) /\ task[h].analysis[1].api_error # None) =>
            LET a == task[h].analysis[1]
                text == task[h].ret.value
            IN /\ Len(text) = 1
               /\ text[1][2] = ErrorHeading[a.api_error]
               /\ \A i \in 1..Len(text[1]) : text[1][i] # "Good Discussion Quality"
               /\ a.api_error = "rate_limited" =>
                     text[1] = <<":hourglass:", "Rate Limited",
                       "Too many requests to OpenAI. Analysis will resume shortly.">>

\* C15 witness: a rate-limited result without biases or issues, which would
\* otherwise be the good-quality case, has been formatted
C15_Witness ==
    \E h \in Handlers :
        /\ Formatted(h)
        /\ task[h].analysis[1].api_error = "rate_limited"
        /\ ~task[h].analysis[1].has_biases
        /\ task[h].analysis[1].discussion_issues = <<>>
        /\ task[h].ret.value[1][2] = "Rate Limited"

\* the lines of a text that render one of the given suggestions
SuggestionLines(text, suggestions) ==
    {i \in 1..Len(text) :
        /\ text[i][1] = "*"
        /\ \E j \in 1..Len(suggestions) : text[i][2] = suggestions[j]}

\* C16: for a result without an error kind that is not the good-quality case,
\* the suggestions section is in the summary if and only if there is a
\* suggestion, and it renders exactly min(n, 3) of the n suggestions.
C16_Original ==
    \A h \in Handlers :
        LET a == task[h].analysis[1] IN
        ( /\ Formatted(h) /\ a.api_error = None
          /\ (a.has_biases \/ a.discussion_issues # <<>>) )
        => LET text == task[h].ret.value
               n == Len(a.suggestions)
           IN /\ (\E i \in 1..Len(text) : text[i] = <<":bulb:", "Suggestions">>)
                 <=> n > 0
              /\ Cardinality(SuggestionLines(text, a.suggestions)) = Min2(n, 3)

----------------------------------------------------------------------------
(* Properties of generate_educational_response *)

\* a call of generate_educational_response that has returned to its caller
FollowupDone(h) == task[h].kind = "followup" /\ task[h].pc = "done"

\* C17: generate_educational_response on a result without issues (has_biases
\* false, no discussion issue) returns None and makes no transport attempt:
\* no attempt started, none failed, no outcome, no wait, no time spent.
C17_FollowupSkips ==
    \A h \in Handlers :
        LET t == task[h] IN
        ( /\ t.kind = "followup"
          /\ ~t.analysis[1].has_biases
          /\ t.analysis[1].discussion_issues = <<>> )
        => /\ t.pc = "done"
           /\ t.ret = Returned(None)
           /\ t.attempt = 0 /\ t.failures = <<>> /\ t.outcome = <<>>
           /\ t.delays = <<>> /\ t.latency = 0

\* C17 witness: an error result, which carries no issues, was handed over
\* and None came back
C17_Witness ==
    \E h \in Handlers :
        /\ FollowupDone(h)
        /\ task[h].analysis[1].api_error = "network_error"
        /\ task[h].ret = Returned(None)
        /\ task[h].attempt = 0

\* the call of an elaboration has failed for good: its last attempt raised
FollowupFailed(h) ==
    /\ FollowupDone(h)
    /\ task[h].outcome # <<>>
    /\ task[h].outcome[1].kind = "raise"

\* C18: when the prior result carries issues and the call fails for good (a
\* non-retryable rejection, three retryable failures, or any other failure of
\* the call), generate_educational_response does not raise and returns one
\* of the fixed apology texts, never None.
C18_Original ==
    \A h \in Handlers :
        FollowupFailed(h) =>
            /\ ~task[h].ret.raised
            /\ task[h].ret.value \in {ApologyApiIssues, ApologyUnavailable}

\* phrase, a sequence of lowercase words, occurs in text.lower()
Mentions(text, phrase) ==
    \E i \in 1..(Len(text) - Len(phrase) + 1) :
        \A j \in 1..Len(phrase) : word_has(lower(text[i + j - 1]), phrase[j])

\* C19: the text returned after an authentication rejection mentions
\* authentication, the text returned after a rate-limit rejection mentions
\* the rate limit, and both carry the warning marker.
C19_Original ==
    \A h \in Handlers :
        FollowupFailed(h) =>
            LET e == task[h].outcome[1].exc.class
                v == task[h].ret.value
            IN (e \in {"AuthenticationError", "RateLimitError"}) =>
                 /\ ~task[h].ret.raised
                 /\ v \in DOMAIN apology_words
                 /\ apology_words[v][1] = ":warning:"
                 /\ e = "AuthenticationError" =>
                       Mentions(apology_words[v], <<"authentication">>)
                 /\ e = "RateLimitError" =>
                       Mentions(apology_words[v], <<"rate", "limit">>)

----------------------------------------------------------------------------
(* Properties of the pattern detector *)

\* a text has been analyzed by the detector on its own
Detected(h) == task[h].kind = "detect" /\ task[h].pc = "done"

\* the matches of the patterns of entry k of the table in a text
MatchCount(k, text) ==
    SumSeq([i \in 1..Len(bias_patterns[k].patterns) |->
               Len(finditer(bias_patterns[k].patterns[i], text_lower(text), 1))])

\* the score of a candidate: 0.6, less 0.2 under 10 words, plus 0.2 for an ad
\* hominem in a text that has 'argument', 'point' or 'claim' (in percent)
CandidateScore(bias_type, text) ==
    60 - (IF Len(text) < 10 THEN 20 ELSE 0)
       + (IF bias_type = "ad_hominem"
             /\ \E i \in 1..Len(text) :
                   \E kw \in {"argument", "point", "claim"} :
                       word_has(lower(text[i]), kw)
          THEN 20 ELSE 0)

\* C20: on every text, the empty one included, the detector returns (it can
\* always take its step, and its result is a sequence of findings); every
\* finding has a confidence strictly above 0.5; the candidates of a type that
\* score 0.5 or less are all discarded and the others all kept; a text
\* without any match yields the empty sequence.
C20_DetectorFindings ==
    \A h \in Handlers :
        /\ task[h].pc = "detect" => ENABLED AnalyzeText(h)
        /\ Detected(h) =>
            LET text == task[h].text
                res == task[h].pattern_results
            IN /\ \A i \in 1..Len(res) :
                     /\ res[i].confidence > 50
                     /\ res[i].confidence <= 100
               /\ \A k \in 1..Len(bias_patterns) :
                     LET bt == bias_patterns[k].bias_type
                         found == Cardinality({i \in 1..Len(res) :
                                                  res[i].bias_type = bt})
                     IN found = IF CandidateScore(bt, text) > 50
                                THEN MatchCount(k, text) ELSE 0
               /\ (\A k \in 1..Len(bias_patterns) : MatchCount(k, text) = 0)
                     => res = <<>>
               /\ text = <<>> => res = <<>>

\* C20 witness: a short text with a match whose candidate scored 0.4 and was
\* discarded
C20_Witness ==
    \E h \in Handlers :
        /\ Detected(h)
        /\ task[h].text = <<"You're", "stupid">>
        /\ MatchCount(1, task[h].text) = 1
        /\ task[h].pattern_results = <<>>

\* the input of scenario A
ScenarioA ==
    <<"You're", "clearly", "an", "idiot", "if", "you", "believe", "that.",
      "Only", "a", "moron", "would", "think", "otherwise.">>

\* C21: for every text in which an ad hominem pattern matches, and for the
\* personal attacks of scenario A and of the detector's test, the detector
\* returns at least one ad hominem finding with a confidence above 0.5.
C21_Original ==
    \A h \in Handlers :
        ( /\ Detected(h)
          /\ \/ MatchCount(1, task[h].text) > 0
             \/ task[h].text \in {ScenarioA, AdHominemTestSentence} )
        => \E i \in 1..Len(task[h].pattern_results) :
              /\ task[h].pattern_results[i].bias_type = "ad_hominem"
              /\ task[h].pattern_results[i].confidence > 50

----------------------------------------------------------------------------
(* Properties of the results of analyze_message *)

\* C22: the reasoning_quality of every result returned by analyze_message,
\* on success and on every error path, is one of poor, fair, good, excellent.
C22_Original ==
    \A h \in Handlers :
        AnalyzeDone(h) =>
            /\ ~task[h].ret.raised
            /\ task[h].ret.value.reasoning_quality
                  \in {"poor", "fair", "good", "excellent"}

\* C23: the confidence of every result returned by analyze_message lies in
\* [0,1] (in percent: 0..100), whatever body the service answered with.
C23_Original ==
    \A h \in Handlers :
        AnalyzeDone(h) =>
            /\ ~task[h].ret.raised
            /\ task[h].ret.value.confidence >= 0
            /\ task[h].ret.value.confidence <= 100
----------------------------------------------------------------------------
(* Properties of the manual path *)

ManualDone(h) ==
    /\ task[h].kind = "manual"
    /\ task[h].pc = "done"
    /\ task[h].text # <<>>

----------------------------------------------------------------------------
(* Properties of retried analyses *)

\* an analysis whose last attempt was answered with a JSON object, after one
\* or two attempts that failed with retryable outcomes
RetriedThenAnswered(h) ==
    /\ AnalyzeDone(h)
    /\ Len(task[h].failures) \in {1, 2}
    /\ AllRetryable(task[h].failures)
    /\ task[h].outcome # <<>>
    /\ task[h].outcome[1].kind = "response"
    /\ task[h].outcome[1].content.form = "object"

\* C25: when attempt 1, or attempts 1 and 2, fail with retryable outcomes and
\* the next attempt is answered with a well-formed body, analyze_message
\* returns a result without error kind, every field the body gives is the
\* result's field, and the call has slept once per failed attempt: 1s, then 2s.
C25_RetriesHidden ==
    \A h \in Handlers :
        RetriedThenAnswered(h) =>
            LET body == task[h].outcome[1].content.data
                n == Len(task[h].failures)
            IN /\ ~task[h].ret.raised
               /\ task[h].ret.value.api_error = None
               /\ \A k \in DOMAIN body : task[h].ret.value[k] = body[k]
               /\ task[h].attempt = n + 1
               /\ task[h].delays = (IF n = 1 THEN <<1>> ELSE <<1, 2>>)
               /\ task[h].latency >= (IF n = 1 THEN 1 ELSE 3)

\* two retryable failures of different classes, then a complete body
C25_Witness ==
    \E h \in Handlers :
        /\ RetriedThenAnswered(h)
        /\ Len(task[h].failures) = 2
        /\ task[h].failures[1].class # task[h].failures[2].class
        /\ DOMAIN task[h].outcome[1].content.data = BodyKeys
        /\ task[h].ret.value.has_biases
        /\ task[h].ret.value.suggestions = <<"s1">>
----------------------------------------------------------------------------
(* Properties of concurrent handling *)

\* handler h is analyzing, or has analyzed, the message it was given
Analyzing(h) ==
    /\ task[h].kind = "auto"
    /\ task[h].pc # "idle"
    /\ task[h].dropped = "no"

----------------------------------------------------------------------------
(* Properties of cancellation *)

----------------------------------------------------------------------------
(* Properties of the filters of handle_message *)

PreAnalysisFilters == {"not monitored", "short", "rate limited"}

AutoDone(h) == task[h].kind = "auto" /\ task[h].pc = "done"

\* C28: when the handling of a message has ended, a message dropped because
\* its channel is not monitored, its text is short or its channel is rate
\* limited is not in the processed set, and no redelivery of it, whatever its
\* text, would be skipped as processed; a message whose analysis was started
\* (cancelled or not) is in the processed set.
C28_ProcessedOnlyIfAnalyzed ==
    \A h \in Handlers :
        AutoDone(h) =>
            LET m == task[h].msg IN
            /\ task[h].dropped \in PreAnalysisFilters =>
                  /\ m.message_id \notin processed_messages
                  /\ \A text \in SampleTexts :
                        handle_message_filter(m.message_id, m.chat, text,
                            processed_messages, last_analysis_time, now, settings)
                          # "processed"
            /\ task[h].dropped = "no" => m.message_id \in processed_messages

\* a message dropped for the rate limit by a bot that has processed another
\* message, and is not in the processed set
C28_Witness ==
    \E h \in Handlers :
        /\ AutoDone(h)
        /\ task[h].dropped = "rate limited"
        /\ processed_messages # {}
        /\ task[h].msg.message_id \notin processed_messages

\* C29 (as stated): the step that ends the handling of a message of channel A
\* never makes a message of another channel B skipped as already processed,
\* not even the one that carries the same message identifier.
C29_Original ==
    [][\A h \in Handlers :
          (task[h].kind = "auto" /\ task[h].pc # "done" /\ task'[h].pc = "done") =>
             \A B \in Chats \ {task[h].msg.chat} :
             \A id \in MsgIds, text \in SampleTexts :
                handle_message_filter(id, B, text, processed_messages',
                                      last_analysis_time', now', settings')
                   = "processed"
                => handle_message_filter(id, B, text, processed_messages,
                                         last_analysis_time, now, settings)
                     = "processed"]_vars

\* the chat has a recorded reply less than the cooldown ago
InCooldown(chat) ==
    /\ chat \in DOMAIN last_analysis_time
    /\ now - last_analysis_time[chat] < settings.response_delay * TicksPerMinute

\* C30: a message that arrives while its channel is rate limited is dropped
\* in the step of its arrival: its handling is over with no pattern finding
\* computed, no transport attempt made and no reply, and nothing the bot keeps
\* has changed.
C30_RateLimitFirst ==
    [][\A h \in Handlers :
          ( /\ task[h].pc = "idle"
            /\ task'[h].kind = "auto"
            /\ InCooldown(task'[h].msg.chat) )
          => /\ task'[h].pc = "done"
             /\ task'[h].dropped # "no"
             /\ task'[h].pattern_results = <<>>
             /\ task'[h].attempt = 0
             /\ task'[h].decision = "none"
             /\ task'[h].reply = "none"
             /\ UNCHANGED bot_vars]_vars

\* a message that passed every other filter, dropped for the rate limit with
\* nothing analyzed
C30_Witness ==
    \E h \in Handlers :
        /\ AutoDone(h)
        /\ InCooldown(task[h].msg.chat)
        /\ task[h].dropped = "rate limited"
        /\ task[h].pattern_results = <<>>
        /\ task[h].attempt = 0
        /\ task[h].reply = "none"
----------------------------------------------------------------------------
(* Properties of unclassified outcomes *)

\* the outcome is in neither class of the retry loop: an exception that no
\* except clause of the loop names, or a response whose content does not
\* parse into a JSON object
Unclassified(o) ==
    \/ o.kind = "raise"
          /\ o.exc.class \notin RetryableErrors \cup NonRetryableErrors
    \/ o.kind = "response" /\ o.content.form # "object"

\* C31: an attempt of analyze_message that ends with an unclassified outcome
\* is the last attempt of the call: the call is over at once, the attempt
\* counter stays at that attempt, the only waits are those after the earlier
\* (retryable) failures, and the result carries UNKNOWN_ERROR.
C31_UnclassifiedEndsCall ==
    \A h \in Handlers :
        LET t == task[h] IN
        (t.kind = "analyze" /\ t.outcome # <<>> /\ Unclassified(t.outcome[1])) =>
            LET earlier == IF t.outcome[1].kind = "raise"
                           THEN Len(t.failures) - 1 ELSE Len(t.failures)
            IN /\ t.pc = "done"
               /\ t.attempt = earlier + 1
               /\ Len(t.delays) = earlier
               /\ \A i \in 1..earlier : t.failures[i].class \in RetryableErrors
               /\ ~t.ret.raised
               /\ t.ret.value.api_error = "unknown_error"

\* an unclassified exception at the second attempt, after one retryable failure
C31_Witness ==
    \E h \in Handlers :
        /\ AnalyzeDone(h)
        /\ task[h].outcome # <<>>
        /\ task[h].outcome[1].kind = "raise"
        /\ task[h].outcome[1].exc.class \in UnclassifiedErrors
        /\ task[h].attempt = 2
        /\ task[h].delays = <<1>>
----------------------------------------------------------------------------
(* Properties of failure containment *)

\* the analysis of the handled message ended in an error result, or the
\* sending of its reply failed
HandlingFailed(h) ==
    /\ AutoDone(h)
    /\ task[h].dropped = "no"
    /\ \/ task[h].reply = "failed"
       \/ task[h].ret.raised
       \/ task[h].ret.value.api_error # None

----------------------------------------------------------------------------
(* Termination of analyze_message *)

\* C33: provided every transport attempt ends and every backoff wait elapses,
\* a call of analyze_message that is in an attempt or in a wait eventually
\* returns a result, whatever the outcomes of its attempts.
C33_AnalyzeReturns ==
    \A h \in Handlers :
        (task[h].kind = "analyze" /\ task[h].pc \in {"attempt", "backoff"})
            ~> (AnalyzeDone(h) /\ ~task[h].ret.raised)

\* a call that has returned a result after its third attempt failed
C33_Witness ==
    \E h \in Handlers :
        /\ AnalyzeDone(h)
        /\ Len(task[h].failures) = 3
        /\ Len(task[h].delays) = 2
        /\ ~task[h].ret.raised
        /\ task[h].ret.value.api_error = "service_unavailable"
----------------------------------------------------------------------------
(* Properties of the rate-limit map across channels *)

\* C34: recording a response for channel A sets A's entry to the current
\* time and leaves every other channel B as it was: B has an entry after if
\* and only if it had one before, with the same time, and the rate-limit check
\* of B gives the same answer at every time.
C34_OtherChannelsUntouched ==
    [][\A h \in Handlers :
          (task[h].pc = "idle" /\ task'[h].kind = "record") =>
             LET A == task'[h].msg.chat IN
             /\ A \in DOMAIN last_analysis_time'
             /\ last_analysis_time'[A] = now
             /\ \A B \in Chats \ {A} :
                   /\ B \in DOMAIN last_analysis_time'
                         <=> B \in DOMAIN last_analysis_time
                   /\ B \in DOMAIN last_analysis_time =>
                         last_analysis_time'[B] = last_analysis_time[B]
                   /\ \A t \in LimiterTimes :
                         is_rate_limited(last_analysis_time', B, t,
                                         settings.response_delay)
                         = is_rate_limited(last_analysis_time, B, t,
                                           settings.response_delay)]_vars

\* a response recorded for one channel while another, replied to earlier, is
\* still rate limited
C34_Witness ==
    \E h \in Handlers : \E B \in Chats :
        /\ task[h].kind = "record" /\ task[h].pc = "done"
        /\ B # task[h].msg.chat
        /\ B \in DOMAIN last_analysis_time
        /\ last_analysis_time[B] < last_analysis_time[task[h].msg.chat]
        /\ is_rate_limited(last_analysis_time, B, now, settings.response_delay)
----------------------------------------------------------------------------
(* Properties of the detector on short texts *)

\* 'argument', 'point' or 'claim' occurs in the lowered text
ArgumentVocabulary(text) ==
    \E i \in 1..Len(text) :
        \E kw \in {"argument", "point", "claim"} : word_has(lower(text[i]), kw)

----------------------------------------------------------------------------
(* Properties of the replies triggered by pattern findings *)

\* the decision was to respond, and the result of the language model does not
\* itself cross the threshold
PatternsAlone(h) ==
    /\ task[h].kind = "policy" /\ task[h].pc = "done"
    /\ task[h].decision = "respond"
    /\ ~(task[h].ret.value.has_biases = TRUE
          /\ task[h].ret.value.confidence > settings.analysis_threshold)

\* the reply has the additional-patterns heading, followed by a finding
ListsAFinding(reply) ==
    \E k \in 1..(Len(reply) - 1) :
        /\ reply[k] = <<":mag:", "Additional Patterns Detected:">>
        /\ Len(reply[k + 1]) = 3
        /\ reply[k + 1][1] = "*"
        /\ reply[k + 1][2] \in {bias_name[b] : b \in DOMAIN bias_name}

====
